---- MODULE Spec2Model ----
(***************************************************************************)
(* Structural code search of scholar-labs/core: the tree-sitter cursor     *)
(* traversal, the structural matcher with wildcards and metavariables,     *)
(* find, the context-constraint resolver (findValidMatches) and the rule   *)
(* engine (loadRules, validateRule, scan).                                 *)
(*                                                                         *)
(* A parsed tree is a nested record [kind, text, children]; a node of a    *)
(* tree is addressed by its path of 0-based child indices from the root,   *)
(* and a node object is the pair of the Tree object it belongs to and its  *)
(* path.  Texts are sequences of one-character strings.                    *)
(***************************************************************************)
EXTENDS Integers, Sequences, FiniteSets, TLC

\* Largest number of children of a statement block in the enumerated trees.
MaxKids == 3
\* Deepest nesting of context fields in the enumerated rules.
MaxDepth == 2
\* Longest rule list in the enumerated rule definitions.
MaxRules == 2

VARIABLES
    op,             \* which entry point this behaviour exercises
    pc,             \* position inside that entry point
    sourceTree,     \* parser.parse(formattedSourceCode).rootNode
    patternTree,    \* parser.parse(formattedPattern).rootNode
    currentMetavars,\* third argument of a direct equalsWithMetavars call
    matchResult,    \* what equalsWithMetavars returned
    findResult,     \* what find returned: the sequence {node, metavariables}
    nodeMetavariables, \* the metavariables property find has set on source nodes
    cursor,         \* traverseTree: where the tree cursor stands
    reachedRoot,    \* traverseTree: the loop's flag
    yielded,        \* traverseTree: the nodes yielded so far, in order
    yamlContent,    \* the rule definitions handed to loadRules
    rules,          \* what loadRules returned: scan's rules argument
    ruleIndex,      \* scan: index of the rule of the current iteration
    validMatches,   \* scan: what findValidMatches returned for the last rule
    results,        \* scan: the local results array
    returned        \* what the caller of loadRules and scan got back

matchVars == <<patternTree, currentMetavars, matchResult, findResult>>
traverseVars == <<cursor, reachedRoot, yielded>>
scanVars == <<yamlContent, rules, ruleIndex, validMatches, results, returned>>
vars == <<op, pc, sourceTree, nodeMetavariables, matchVars, traverseVars, scanVars>>

----------------------------------------------------------------------------
(* Tree model: what tree-sitter hands to the code.                         *)

\* Text of an internal node: the source slice spanning its children, which
\* the formatter lays out with one separator between adjacent children.
\* Top-level statements stand on lines of their own.
Separator(k) == IF k = "program" THEN "\n" ELSE " "
RECURSIVE Slice(_, _)
Slice(cs, sep) ==
    IF cs = <<>> THEN <<>>
    ELSE IF Len(cs) = 1 THEN cs[1].text
    ELSE cs[1].text \o <<sep>> \o Slice(Tail(cs), sep)

Leaf(k, t) == [kind |-> k, text |-> t, children |-> <<>>]
Inner(k, cs) == [kind |-> k, text |-> Slice(cs, Separator(k)), children |-> cs]

\* JavaScript's null, as node.child(i) returns it past the last child.
NullNode == [kind |-> "null", text |-> <<>>, children |-> <<>>]
IsNull(n) == n.kind = "null"

childCount(n) == Len(n.children)
child(n, i) == IF i >= 0 /\ i < Len(n.children) THEN n.children[i + 1] ELSE NullNode

RECURSIVE nodeAt(_, _)
nodeAt(tree, path) ==
    IF path = <<>> THEN tree ELSE nodeAt(child(tree, Head(path)), Tail(path))

\* All sequences over S of a length in lo..hi.
SeqsOf(S, lo, hi) == UNION {[1..n -> S] : n \in lo..hi}

Id(t) == Leaf("identifier", t)
WILDCARD_COMMENT == <<"/", "*", " ", ".", ".", ".", " ", "*", "/">>
WildcardNode == Leaf("comment", WILDCARD_COMMENT)
Call(arg) == Inner("call_expression", <<arg>>)

\* Children of a source block: identifiers, a zero-width node (tree-sitter's
\* MISSING identifier, whose text is empty) and calls.
SrcElems == {Id(<<"a">>), Id(<<>>), Call(Id(<<"a">>)), Call(Id(<<"b">>))}
\* Children of a pattern block.
PatElems == {Id(<<"a">>), Id(<<"$", "X">>), WildcardNode,
             Call(Id(<<"$", "X">>)), Call(Id(<<"a">>))}

SourceTrees ==
    {Inner("program", <<Inner("statement_block", cs)>>) : cs \in SeqsOf(SrcElems, 1, MaxKids)}
PatternTrees ==
    {Inner("program", <<>>)} \cup
    {Inner("program", <<Call(Id(<<"a">>))>>), Inner("program", <<Call(Id(<<"$", "X">>))>>)} \cup
    {Inner("program", <<Inner("statement_block", cs)>>) : cs \in SeqsOf(PatElems, 1, MaxKids)}

----------------------------------------------------------------------------
(* Traversal: traverseTree's cursor loop.                                  *)

Parent(path) == SubSeq(path, 1, Len(path) - 1)
Last(path) == path[Len(path)]

\* cursor.gotoFirstChild(), gotoNextSibling(), gotoParent(): whether the move
\* is possible, and where the cursor is afterwards.
canGotoFirstChild(tree, cur) == childCount(nodeAt(tree, cur)) > 0
canGotoNextSibling(tree, cur) ==
    cur /= <<>> /\ Last(cur) + 1 < childCount(nodeAt(tree, Parent(cur)))
canGotoParent(cur) == cur /= <<>>
NextSibling(cur) == Parent(cur) \o <<Last(cur) + 1>>

\* A retracing loop that gives up after one level.
retraceOnce(tree, cur) ==
    IF canGotoParent(cur) /\ canGotoNextSibling(tree, Parent(cur))
    THEN [cursor |-> NextSibling(Parent(cur)), reachedRoot |-> FALSE]
    ELSE [cursor |-> cur, reachedRoot |-> TRUE]

\* The retracing loop: climb until a next sibling exists or the root is hit.
RECURSIVE retrace(_, _)
retrace(tree, cur) ==
    IF ~canGotoParent(cur)
    THEN [cursor |-> IF canGotoNextSibling(tree, cur) THEN NextSibling(cur) ELSE cur,
          reachedRoot |-> TRUE]
    ELSE LET p == Parent(cur) IN
         IF canGotoNextSibling(tree, p)
         THEN [cursor |-> NextSibling(p), reachedRoot |-> FALSE]
         ELSE retrace(tree, p)

\* One iteration of the outer loop after the yield: where the cursor goes.
advance(tree, cur) ==
    IF canGotoFirstChild(tree, cur) THEN [cursor |-> cur \o <<0>>, reachedRoot |-> FALSE]
    ELSE IF canGotoNextSibling(tree, cur) THEN [cursor |-> NextSibling(cur), reachedRoot |-> FALSE]
    ELSE retrace(tree, cur)

\* Array.from(traverseTree(tree)): the loop run to its end.
RECURSIVE traverseFrom(_, _, _)
traverseFrom(tree, cur, acc) ==
    LET nxt == advance(tree, cur) IN
    IF nxt.reachedRoot THEN Append(acc, cur)
    ELSE traverseFrom(tree, nxt.cursor, Append(acc, cur))

traverseTree(tree) == traverseFrom(tree, <<>>, <<>>)

----------------------------------------------------------------------------
(* Structural matcher.                                                     *)

IsSpace(c) == c \in {" ", "\t", "\n"}
RECURSIVE trimStart(_)
trimStart(t) == IF t /= <<>> /\ IsSpace(Head(t)) THEN trimStart(Tail(t)) ELSE t
RECURSIVE trimEnd(_)
trimEnd(t) ==
    IF t /= <<>> /\ IsSpace(t[Len(t)]) THEN trimEnd(SubSeq(t, 1, Len(t) - 1)) ELSE t
trim(t) == trimEnd(trimStart(t))

isWildcard(node) ==
    ~IsNull(node) /\ node.kind = "comment" /\ trim(node.text) = WILDCARD_COMMENT

RECURSIVE getNodeText(_)
RECURSIVE concatText(_)
concatText(cs) == IF cs = <<>> THEN <<>> ELSE getNodeText(Head(cs)) \o concatText(Tail(cs))
getNodeText(node) ==
    IF IsNull(node) THEN <<>>
    ELSE IF childCount(node) = 0 THEN node.text
    ELSE concatText(node.children)

isMetavariable(node) ==
    ~IsNull(node) /\ node.kind = "identifier" /\ node.text /= <<>> /\ node.text[1] = "$"

NoMetavars == <<>>
\* { ...metavars, [name]: value }
WithBinding(metavars, name, value) ==
    [k \in (DOMAIN metavars) \cup {name} |-> IF k = name THEN value ELSE metavars[k]]
\* !currentMetavars[name]: undefined and the empty string are both falsy.
IsFalsyBinding(metavars, name) ==
    name \notin DOMAIN metavars \/ metavars[name] = <<>>

NoMatch == [matches |-> FALSE]

\* Leaf rule: node1.text === node2.text.
leafTextEquals(node1, node2) == node1.text = node2.text
\* A final return that lets source children go unconsumed.
allSourceConsumedLoose(node1, sourceIndex) == sourceIndex <= childCount(node1)
\* Final return: sourceIndex === node1.childCount.
allSourceConsumed(node1, sourceIndex) == sourceIndex = childCount(node1)

RECURSIVE equalsWithMetavars(_, _, _)
RECURSIVE matchChildren(_, _, _, _, _)
RECURSIVE wildcardSearch(_, _, _, _)
RECURSIVE wildcardSearchGreedy(_, _, _, _)

\* The metavariable rule.
matchMetavariable(node1, node2, metavars) ==
    LET metavarName == node2.text
        nodeText == getNodeText(node1)
    IN  IF IsFalsyBinding(metavars, metavarName)
        THEN [matches |-> TRUE, metavariables |-> WithBinding(metavars, metavarName, nodeText)]
        ELSE [matches |-> metavars[metavarName] = nodeText, metavariables |-> metavars]

\* A greedy search: the last source position that matches, not the first.
wildcardSearchGreedy(node1, remainingPattern, metavars, sourceIndex) ==
    IF sourceIndex < childCount(node1)
    THEN LET later == wildcardSearchGreedy(node1, remainingPattern, metavars, sourceIndex + 1)
             here == equalsWithMetavars(child(node1, sourceIndex), remainingPattern, metavars)
         IN  IF later.matches THEN later ELSE IF here.matches THEN here ELSE NoMatch
    ELSE NoMatch

\* The inner while loop after a wildcard that is not the last pattern child.
wildcardSearch(node1, remainingPattern, metavars, sourceIndex) ==
    IF sourceIndex < childCount(node1)
    THEN LET nextResult ==
                 equalsWithMetavars(child(node1, sourceIndex), remainingPattern, metavars)
         IN  IF nextResult.matches THEN nextResult
             ELSE wildcardSearch(node1, remainingPattern, metavars, sourceIndex + 1)
    ELSE NoMatch

\* The outer while loop over the pattern's children and the final return.
matchChildren(node1, node2, metavars, sourceIndex, patternIndex) ==
    IF patternIndex < childCount(node2)
    THEN LET patternChild == child(node2, patternIndex) IN
         IF isWildcard(patternChild)
         THEN LET remainingPattern == child(node2, patternIndex + 1) IN
              IF IsNull(remainingPattern)
              THEN [matches |-> TRUE, metavariables |-> metavars]
              ELSE wildcardSearch(node1, remainingPattern, metavars, sourceIndex)
         ELSE IF sourceIndex >= childCount(node1) THEN NoMatch
         ELSE LET childResult ==
                      equalsWithMetavars(child(node1, sourceIndex), patternChild, metavars)
              IN  IF ~childResult.matches THEN NoMatch
                  ELSE matchChildren(node1, node2, childResult.metavariables,
                                     sourceIndex + 1, patternIndex + 1)
    ELSE [matches |-> allSourceConsumed(node1, sourceIndex), metavariables |-> metavars]

equalsWithMetavars(node1, node2, metavars) ==
    IF IsNull(node1) \/ IsNull(node2) THEN NoMatch
    ELSE IF isWildcard(node2)
    THEN [matches |-> TRUE, metavariables |-> metavars, consumedNodes |-> 0]
    ELSE IF isMetavariable(node2) THEN matchMetavariable(node1, node2, metavars)
    ELSE IF node1.kind /= node2.kind THEN NoMatch
    ELSE IF childCount(node1) = 0
    THEN [matches |-> leafTextEquals(node1, node2), metavariables |-> metavars]
    ELSE matchChildren(node1, node2, metavars, 0, 0)

----------------------------------------------------------------------------
(* find: every node of a fresh parse of the source against the pattern's   *)
(* first top-level node.  treeId names the Tree object this call parsed.   *)

\* Offset of the node at path, in a subtree that starts at offset base.
RECURSIVE offsetOf(_, _, _)
RECURSIVE widthBefore(_, _)
widthBefore(n, i) ==
    IF i = 0 THEN 0 ELSE widthBefore(n, i - 1) + Len(child(n, i - 1).text) + 1
offsetOf(n, path, base) ==
    IF path = <<>> THEN base
    ELSE offsetOf(child(n, Head(path)), Tail(path), base + widthBefore(n, Head(path)))

\* A node object: the Tree it was read from, its place in that tree, and the
\* attributes the code reads from it.
NodeRef(tree, treeId, path) ==
    [tree |-> treeId, path |-> path,
     startIndex |-> offsetOf(tree, path, 0),
     endIndex |-> offsetOf(tree, path, 0) + Len(nodeAt(tree, path).text),
     text |-> nodeAt(tree, path).text,
     childCount |-> childCount(nodeAt(tree, path))]
\* a === b for node objects: the same node of the same Tree.
SameNode(a, b) == a.tree = b.tree /\ a.path = b.path

RECURSIVE collectMatches(_, _, _, _, _)
collectMatches(tree, treeId, targetNode, allNodes, i) ==
    IF i > Len(allNodes) THEN <<>>
    ELSE LET r == equalsWithMetavars(nodeAt(tree, allNodes[i]), targetNode, NoMetavars) IN
         (IF r.matches
          THEN <<[node |-> NodeRef(tree, treeId, allNodes[i]),
                  metavariables |-> r.metavariables]>>
          ELSE <<>>) \o collectMatches(tree, treeId, targetNode, allNodes, i + 1)

find(sourceCode, pattern, treeId) ==
    collectMatches(sourceCode, treeId, child(pattern, 0), traverseTree(sourceCode), 1)

\* sourceNode.metavariables = matchResult.metavariables, for each match of one
\* find call: the nodes written, with the value each now carries.
findWrites(found) ==
    {[tree |-> found[i].node.tree, path |-> found[i].node.path,
      metavariables |-> found[i].metavariables] : i \in 1..Len(found)}

----------------------------------------------------------------------------
(* Context relations.                                                      *)

inside(nodeA, nodeB) ==
    nodeA.startIndex >= nodeB.startIndex /\ nodeA.endIndex <= nodeB.endIndex
precedes(nodeA, nodeB) == nodeA.endIndex <= nodeB.startIndex
follows(nodeA, nodeB) == nodeA.startIndex >= nodeB.endIndex
\* nodeA.child(i) === nodeB for some i: nodeA.child(i) is a node of nodeA's Tree.
has(nodeA, nodeB) ==
    \E i \in 0..(nodeA.childCount - 1) :
        nodeA.tree = nodeB.tree /\ nodeA.path \o <<i>> = nodeB.path

----------------------------------------------------------------------------
(* JavaScript values of the rule definitions.  An object is the sequence   *)
(* of its entries, in insertion order.                                     *)

JsUndefined == [type |-> "undefined"]
JsNull == [type |-> "null"]
JsNumber(n) == [type |-> "number", value |-> n]
JsString(t) == [type |-> "string", text |-> t]
JsObject(es) == [type |-> "object", entries |-> es]
JsArray(items) == [type |-> "array", items |-> items]
\* A pattern's text, with the tree the parser makes of it.
JsPattern(tree) == [type |-> "string", text |-> tree.text, parse |-> tree]
Entry(k, v) == [key |-> k, value |-> v]

Truthy(v) ==
    CASE v.type = "undefined" -> FALSE
      [] v.type = "null" -> FALSE
      [] v.type = "number" -> v.value /= 0
      [] v.type = "string" -> v.text /= <<>>
      [] OTHER -> TRUE
Nullish(v) == v.type \in {"undefined", "null"}

\* obj[key]: undefined when obj has no such property.
Get(obj, key) ==
    IF obj.type = "object" /\ \E i \in 1..Len(obj.entries) : obj.entries[i].key = key
    THEN obj.entries[CHOOSE i \in 1..Len(obj.entries) : obj.entries[i].key = key].value
    ELSE JsUndefined

----------------------------------------------------------------------------
(* Rule engine: loadRules, validateRule, findValidMatches, scan.           *)

\* yaml.load: the document's value, or an exception on malformed YAML.
yamlLoad(content) ==
    IF content.malformed THEN [threw |-> TRUE, message |-> "bad indentation of a mapping entry"]
    ELSE [threw |-> FALSE, value |-> content.value]

loadRules(content) ==
    LET loaded == yamlLoad(content) IN
    IF loaded.threw
    THEN [threw |-> TRUE, error |-> "Failed to parse rules: " \o loaded.message]
    ELSE IF loaded.value.type /= "array"
    THEN [threw |-> FALSE, rules |-> <<loaded.value>>]
    ELSE [threw |-> FALSE, rules |-> loaded.value.items]

Valid == [ok |-> TRUE]
Throw(message) == [ok |-> FALSE, error |-> message]

contextTypes == <<"inside", "has", "follows", "precedes">>

RECURSIVE validatePattern(_, _)
RECURSIVE validateContexts(_, _, _)
\* A loop that leaves nested patterns unvalidated.
validateContextsShallow(patternObj, path, i) == Valid

\* The for loop over contextTypes, from its i-th element on.
validateContexts(patternObj, path, i) ==
    IF i > Len(contextTypes) THEN Valid
    ELSE LET nested == Get(patternObj, contextTypes[i]) IN
         IF Truthy(nested)
         THEN LET r == validatePattern(nested, path \o "." \o contextTypes[i]) IN
              IF r.ok THEN validateContexts(patternObj, path, i + 1) ELSE r
         ELSE validateContexts(patternObj, path, i + 1)

validatePattern(patternObj, path) ==
    IF ~Truthy(Get(patternObj, "pattern"))
    THEN Throw("Pattern must be defined at " \o path)
    ELSE validateContexts(patternObj, path, 1)

validateRule(rule) ==
    IF Nullish(rule) THEN Throw("TypeError: Cannot read properties of " \o rule.type)
    ELSE IF ~Truthy(Get(rule, "id")) THEN Throw("Rule must have an id")
    ELSE IF ~Truthy(Get(rule, "message")) THEN Throw("Rule must have a message")
    ELSE IF ~Truthy(Get(rule, "rule")) THEN Throw("Rule must have a rule object")
    ELSE validatePattern(Get(rule, "rule"), "rule")

\* No key of newMetavars is bound to another text in metavars.
metavarsConsistent(metavars, newMetavars) ==
    \A key \in DOMAIN newMetavars :
        ~(key \in DOMAIN metavars /\ metavars[key] /= newMetavars[key])

\* { ...metavars, ...matchMetavars }
combine(metavars, matchMetavars) ==
    [k \in (DOMAIN metavars) \cup (DOMAIN matchMetavars) |->
        IF k \in DOMAIN matchMetavars THEN matchMetavars[k] ELSE metavars[k]]

\* node = null of a top-level call.
NoNode == [tree |-> <<>>, path |-> <<>>]

\* contextTypes[contextType](match.node, contextMatch.node)
relationHolds(contextType, matchNode, contextNode) ==
    CASE contextType = "inside" -> inside(matchNode, contextNode)
      [] contextType = "has" -> has(matchNode, contextNode)
      [] contextType = "follows" -> follows(matchNode, contextNode)
      [] contextType = "precedes" -> precedes(matchNode, contextNode)

\* contextMatches.some(...)
hasValidContextMatch(contextType, matchNode, contextMatches) ==
    \E j \in 1..Len(contextMatches) :
        relationHolds(contextType, matchNode, contextMatches[j].node)

Threw == [threw |-> TRUE, matches |-> <<>>]
Matches(ms) == [threw |-> FALSE, matches |-> ms]

RECURSIVE findValidMatches(_, _, _, _, _)
RECURSIVE checkContexts(_, _, _, _, _, _)
RECURSIVE verifyMatches(_, _, _, _, _, _)

\* The loop over Object.entries(patternObj) for one match, from entry i on:
\* whether the match is valid, or an exception escaped.
checkContexts(sourceCode, patternObj, match, combinedMetavars, callId, i) ==
    IF i > Len(patternObj.entries) THEN [threw |-> FALSE, valid |-> TRUE]
    ELSE LET contextType == patternObj.entries[i].key
             contextPattern == patternObj.entries[i].value
         IN  IF contextType = "pattern"
             THEN checkContexts(sourceCode, patternObj, match, combinedMetavars, callId, i + 1)
             ELSE LET contextMatches ==
                          findValidMatches(sourceCode, contextPattern, match.node,
                                           combinedMetavars, callId \o <<i>>)
                  IN  IF contextMatches.threw THEN [threw |-> TRUE, valid |-> FALSE]
                      ELSE IF contextMatches.matches = <<>>
                      THEN [threw |-> FALSE, valid |-> FALSE]
                      ELSE IF contextType \notin {contextTypes[k] : k \in 1..Len(contextTypes)}
                      THEN [threw |-> TRUE, valid |-> FALSE]
                      ELSE IF hasValidContextMatch(contextType, match.node,
                                                   contextMatches.matches)
                      THEN checkContexts(sourceCode, patternObj, match, combinedMetavars,
                                         callId, i + 1)
                      ELSE [threw |-> FALSE, valid |-> FALSE]

\* The loop over currentMatches.nodes, from match i on.
verifyMatches(sourceCode, patternObj, currentMatches, metavars, callId, i) ==
    IF i > Len(currentMatches) THEN Matches(<<>>)
    ELSE LET match == currentMatches[i]
             combinedMetavars == combine(metavars, match.metavariables)
             checked == checkContexts(sourceCode, patternObj, match, combinedMetavars,
                                      callId \o <<i>>, 1)
         IN  IF checked.threw THEN Threw
             ELSE LET rest == verifyMatches(sourceCode, patternObj, currentMatches,
                                            metavars, callId, i + 1)
                  IN  IF rest.threw THEN Threw
                      ELSE Matches((IF checked.valid THEN <<match>> ELSE <<>>) \o rest.matches)

\* callId names this call; the Tree its find parses is named after it.
findValidMatches(sourceCode, patternObj, node, metavars, callId) ==
    IF Nullish(patternObj) \/ Get(patternObj, "pattern").type /= "string" THEN Threw
    ELSE LET found == find(sourceCode, Get(patternObj, "pattern").parse, callId)
             consistent(match) == metavarsConsistent(metavars, match.metavariables)
             currentMatches == IF node /= NoNode THEN SelectSeq(found, consistent) ELSE found
         IN  verifyMatches(sourceCode, patternObj, currentMatches, metavars, callId, 1)

RECURSIVE resolveWrites(_, _, _, _, _)
RECURSIVE contextWrites(_, _, _, _, _, _)
RECURSIVE matchWrites(_, _, _, _, _, _)

\* The nodes the find calls behind one match's context fields write to, from
\* entry i on; the loop stops at the first field that fails or throws.
contextWrites(sourceCode, patternObj, match, combinedMetavars, callId, i) ==
    IF i > Len(patternObj.entries) THEN {}
    ELSE LET contextType == patternObj.entries[i].key
             contextPattern == patternObj.entries[i].value
         IN  IF contextType = "pattern"
             THEN contextWrites(sourceCode, patternObj, match, combinedMetavars, callId, i + 1)
             ELSE LET contextMatches ==
                          findValidMatches(sourceCode, contextPattern, match.node,
                                           combinedMetavars, callId \o <<i>>)
                      here == resolveWrites(sourceCode, contextPattern, match.node,
                                            combinedMetavars, callId \o <<i>>)
                  IN  IF \/ contextMatches.threw
                         \/ contextMatches.matches = <<>>
                         \/ contextType \notin {contextTypes[k] : k \in 1..Len(contextTypes)}
                         \/ ~hasValidContextMatch(contextType, match.node, contextMatches.matches)
                      THEN here
                      ELSE here \cup contextWrites(sourceCode, patternObj, match,
                                                   combinedMetavars, callId, i + 1)

\* The same for the loop over currentMatches.nodes, from match i on.
matchWrites(sourceCode, patternObj, currentMatches, metavars, callId, i) ==
    IF i > Len(currentMatches) THEN {}
    ELSE LET match == currentMatches[i]
             combinedMetavars == combine(metavars, match.metavariables)
             checked == checkContexts(sourceCode, patternObj, match, combinedMetavars,
                                      callId \o <<i>>, 1)
             here == contextWrites(sourceCode, patternObj, match, combinedMetavars,
                                   callId \o <<i>>, 1)
         IN  IF checked.threw THEN here
             ELSE here \cup matchWrites(sourceCode, patternObj, currentMatches, metavars,
                                        callId, i + 1)

\* Every node one findValidMatches call writes to, through its own find call
\* and those of its nested calls, up to its return or its exception.
resolveWrites(sourceCode, patternObj, node, metavars, callId) ==
    IF Nullish(patternObj) \/ Get(patternObj, "pattern").type /= "string" THEN {}
    ELSE LET found == find(sourceCode, Get(patternObj, "pattern").parse, callId)
             consistent(match) == metavarsConsistent(metavars, match.metavariables)
             currentMatches == IF node /= NoNode THEN SelectSeq(found, consistent) ELSE found
         IN  findWrites(found) \cup
             matchWrites(sourceCode, patternObj, currentMatches, metavars, callId, 1)

\* (upTo.match(/\n/g) || []).length + 1
RECURSIVE countNewlines(_)
countNewlines(t) ==
    IF t = <<>> THEN 0 ELSE (IF Head(t) = "\n" THEN 1 ELSE 0) + countNewlines(Tail(t))
getLineNumbers(sourceCode, startIndex, endIndex) ==
    [startLine |-> countNewlines(SubSeq(sourceCode.text, 1, startIndex)) + 1,
     endLine |-> countNewlines(SubSeq(sourceCode.text, 1, endIndex)) + 1]

getAccurateMatchText(node) == node.text

\* The ScanResult pushed for one match of a rule.
scanResult(sourceCode, rule, match) ==
    LET lines == getLineNumbers(sourceCode, match.node.startIndex, match.node.endIndex) IN
    [ruleId |-> Get(rule, "id"), message |-> Get(rule, "message"),
     startLine |-> lines.startLine, endLine |-> lines.endLine,
     matchedText |-> getAccurateMatchText(match.node),
     metavariables |-> match.metavariables]

\* What a caller has in hand.
NothingYet == [kind |-> "pending"]
Rejected(message) == [kind |-> "error", error |-> message]
Resolved(value) == [kind |-> "value", value |-> value]

----------------------------------------------------------------------------
(* Values of the variables an entry point does not use.                   *)

MatchIdle ==
    /\ patternTree = NullNode
    /\ currentMetavars = NoMetavars
    /\ matchResult = NoMatch
    /\ findResult = <<>>
TraverseIdle ==
    /\ cursor = <<>>
    /\ reachedRoot = FALSE
    /\ yielded = <<>>
ScanIdle ==
    /\ yamlContent = [malformed |-> FALSE, value |-> JsUndefined]
    /\ rules = <<>>
    /\ ruleIndex = 0
    /\ validMatches = <<>>
    /\ results = <<>>
    /\ returned = NothingYet

----------------------------------------------------------------------------
(* Matcher specification: a source, a pattern and input bindings are       *)
(* drawn, then find runs or equalsWithMetavars is called on the source's   *)
(* block.                                                                  *)

BindingSets ==
    {NoMetavars,
     (<<"$", "X">> :> <<"a">>),
     (<<"$", "X">> :> <<>>)}

InitMatch ==
    /\ op = "match"
    /\ pc = "ready"
    /\ sourceTree \in SourceTrees
    /\ patternTree \in PatternTrees
    /\ currentMetavars = NoMetavars
    /\ matchResult = NoMatch
    /\ findResult = <<>>
    /\ nodeMetavariables = {}
    /\ TraverseIdle
    /\ ScanIdle

Find ==
    /\ op = "match" /\ pc = "ready"
    /\ LET found == find(sourceTree, patternTree, <<1>>) IN
          /\ findResult' = found
          /\ nodeMetavariables' = nodeMetavariables \cup findWrites(found)
    /\ pc' = "found"
    /\ UNCHANGED <<op, sourceTree, patternTree, currentMetavars, matchResult, traverseVars, scanVars>>

Match ==
    /\ op = "match" /\ pc = "ready"
    /\ \E mv \in BindingSets :
        /\ currentMetavars' = mv
        /\ matchResult' = equalsWithMetavars(child(sourceTree, 0), child(patternTree, 0), mv)
    /\ pc' = "matched"
    /\ UNCHANGED <<op, sourceTree, patternTree, findResult, nodeMetavariables, traverseVars, scanVars>>

NextMatch == Find \/ Match

SpecMatch == InitMatch /\ [][NextMatch]_vars

----------------------------------------------------------------------------
(* Traversal specification: the generator's loop, one yield per step.      *)

Block(cs) == Inner("statement_block", cs)

\* The matcher's sources, a root without children, and deeper nestings.
TraversalTrees ==
    SourceTrees \cup {Inner("program", <<>>)} \cup
    {Inner("program", <<Block(<<Block(<<e>>), f>>)>>) : e \in SrcElems, f \in SrcElems} \cup
    {Inner("program", <<Block(<<e>>), Block(<<Block(<<f>>)>>)>>) : e \in SrcElems, f \in SrcElems}

InitTraverse ==
    /\ op = "traverse"
    /\ pc = "loop"
    /\ sourceTree \in TraversalTrees
    /\ nodeMetavariables = {}
    /\ TraverseIdle
    /\ MatchIdle
    /\ ScanIdle

\* yield currentNode, then move the cursor.
TraverseYield ==
    /\ op = "traverse" /\ pc = "loop" /\ ~reachedRoot
    /\ yielded' = Append(yielded, cursor)
    /\ LET nxt == advance(sourceTree, cursor) IN
          /\ cursor' = nxt.cursor
          /\ reachedRoot' = nxt.reachedRoot
    /\ UNCHANGED <<op, pc, sourceTree, nodeMetavariables, matchVars, scanVars>>

\* The while condition fails and the generator returns.
TraverseReturn ==
    /\ op = "traverse" /\ pc = "loop" /\ reachedRoot
    /\ pc' = "done"
    /\ UNCHANGED <<op, sourceTree, nodeMetavariables, matchVars, traverseVars, scanVars>>

NextTraverse == TraverseYield \/ TraverseReturn

\* Array.from drains the generator: the loop keeps running while it can.
SpecTraverse == InitTraverse /\ [][NextTraverse]_vars /\ WF_vars(NextTraverse)

----------------------------------------------------------------------------
(* Rule engine specification: rule definitions and a source are drawn,     *)
(* loadRules runs, then scan, one rule at a time.                          *)

Decl(x) == Inner("lexical_declaration", <<x>>)
Program(cs) == Inner("program", cs)
IdA == Id(<<"a">>)
IdB == Id(<<"b">>)
MetaX == Id(<<"$", "X">>)

ScanSources ==
    {Program(<<Decl(IdA), Call(IdA), Decl(IdB)>>),
     Program(<<Decl(IdA), Call(IdA), Decl(IdB), Decl(IdA), Call(IdA), Decl(IdB)>>),
     Program(<<Call(IdA), Decl(IdA)>>),
     Program(<<Block(<<Decl(IdA), Call(IdB)>>), Call(IdA)>>),
     Program(<<Call(IdB), Block(<<Decl(IdA)>>), Call(IdA)>>)}

\* console.log($X) and { /* ... */ }
BasePatterns ==
    {JsPattern(Program(<<Call(MetaX)>>)),
     JsPattern(Program(<<Block(<<WildcardNode>>)>>))}

contextTypeNames == {contextTypes[k] : k \in 1..Len(contextTypes)}

\* A pattern object's own part: with or without its pattern.
BaseEntries == {<<>>} \cup {<<Entry("pattern", p)>> : p \in BasePatterns}

\* Pattern objects with at most one context field each, nested up to depth d.
RECURSIVE PatternObjs(_)
PatternObjs(d) ==
    IF d = 0 THEN {JsObject(b) : b \in BaseEntries}
    ELSE PatternObjs(d - 1) \cup
         {JsObject(b \o <<Entry(c, o)>>) :
              b \in BaseEntries, c \in contextTypeNames, o \in PatternObjs(d - 1)}

\* Pattern objects with two context fields.
ContextPairs ==
    {pr \in (1..Len(contextTypes)) \X (1..Len(contextTypes)) : pr[1] < pr[2]}
TwoContextObjs ==
    {JsObject(<<Entry("pattern", p),
                Entry(contextTypes[pr[1]], JsObject(<<Entry("pattern", q)>>)),
                Entry(contextTypes[pr[2]], JsObject(<<Entry("pattern", r)>>))>>) :
         p \in BasePatterns, q \in BasePatterns, r \in BasePatterns, pr \in ContextPairs}

Text(str) == JsString(str)
RuleObj(id, patternObj) ==
    JsObject(<<Entry("id", Text(id)), Entry("message", Text(<<"f", "o", "u", "n", "d", "!">>)),
               Entry("rule", patternObj)>>)

\* const $X=5 preceding console.log($X)
DeclPrecedesCall ==
    JsObject(<<Entry("pattern", JsPattern(Program(<<Decl(MetaX)>>))),
               Entry("precedes", JsObject(<<Entry("pattern", JsPattern(Program(<<Call(MetaX)>>)))>>))>>)
\* A rule whose inside.has sub-pattern omits its pattern.
MissingNestedPattern ==
    JsObject(<<Entry("pattern", JsPattern(Program(<<Call(MetaX)>>))),
               Entry("inside", JsObject(<<Entry("pattern", JsPattern(Program(<<Block(<<WildcardNode>>)>>))),
                                          Entry("has", JsObject(<<>>))>>))>>)

RuleBank ==
    {RuleObj(<<"r", "1">>, DeclPrecedesCall),
     RuleObj(<<"r", "2">>, JsObject(<<Entry("pattern", JsPattern(Program(<<Call(MetaX)>>)))>>)),
     RuleObj(<<"r", "3">>, MissingNestedPattern),
     RuleObj(<<>>, DeclPrecedesCall),
     JsObject(<<Entry("message", Text(<<"m">>)), Entry("rule", DeclPrecedesCall)>>),
     JsObject(<<Entry("id", Text(<<"r", "5">>)), Entry("rule", DeclPrecedesCall)>>),
     JsObject(<<Entry("id", Text(<<"r", "6">>)), Entry("message", Text(<<"m">>))>>)}

\* Pattern objects that pass validation and carry a context field without
\* value, or a key that is none of the four context fields.
ExtraKeyObjs ==
    LET callX == JsPattern(Program(<<Call(MetaX)>>))
        block == JsPattern(Program(<<Block(<<WildcardNode>>)>>))
    IN  {JsObject(<<Entry("pattern", callX), Entry("inside", JsNull)>>),
         JsObject(<<Entry("pattern", callX), Entry("precedes", Text(<<>>))>>),
         JsObject(<<Entry("pattern", callX), Entry("note", Text(<<"n">>))>>),
         JsObject(<<Entry("pattern", callX), Entry("fix", JsObject(<<Entry("pattern", callX)>>))>>),
         JsObject(<<Entry("pattern", callX), Entry("fix", JsObject(<<Entry("pattern", block)>>))>>),
         JsObject(<<Entry("pattern", block),
                    Entry("inside", JsObject(<<Entry("pattern", block), Entry("has", JsNull)>>))>>)}

Document(v) == [malformed |-> FALSE, value |-> v]
YamlContents ==
    {[malformed |-> TRUE, value |-> JsUndefined]} \cup
    {Document(JsUndefined), Document(JsNumber(42)), Document(Text(<<"x">>))} \cup
    {Document(JsArray(rs)) : rs \in SeqsOf(RuleBank, 0, MaxRules)} \cup
    {Document(r) : r \in RuleBank} \cup
    {Document(RuleObj(<<"r">>, o)) : o \in PatternObjs(MaxDepth) \cup TwoContextObjs} \cup
    {Document(RuleObj(<<"r">>, o)) : o \in ExtraKeyObjs}

InitScan ==
    /\ op = "scan"
    /\ pc = "load"
    /\ sourceTree \in ScanSources
    /\ yamlContent \in YamlContents
    /\ rules = <<>>
    /\ ruleIndex = 0
    /\ validMatches = <<>>
    /\ results = <<>>
    /\ returned = NothingYet
    /\ nodeMetavariables = {}
    /\ MatchIdle
    /\ TraverseIdle

\* const rules = loadRules(yamlRules)
LoadRules ==
    /\ op = "scan" /\ pc = "load"
    /\ LET loaded == loadRules(yamlContent) IN
          IF loaded.threw
          THEN /\ returned' = Rejected(loaded.error)
               /\ pc' = "threw"
               /\ UNCHANGED <<rules, ruleIndex>>
          ELSE /\ rules' = loaded.rules
               /\ ruleIndex' = 1
               /\ pc' = "validate"
               /\ UNCHANGED returned
    /\ UNCHANGED <<op, sourceTree, yamlContent, validMatches, results, nodeMetavariables,
                   matchVars, traverseVars>>

\* scan: validateRule(rule) of the current iteration.
ScanValidate ==
    /\ op = "scan" /\ pc = "validate" /\ ruleIndex <= Len(rules)
    /\ LET checked == validateRule(rules[ruleIndex]) IN
          IF checked.ok
          THEN pc' = "resolve" /\ UNCHANGED returned
          ELSE pc' = "threw" /\ returned' = Rejected(checked.error)
    /\ UNCHANGED <<op, sourceTree, yamlContent, rules, ruleIndex, validMatches, results,
                   nodeMetavariables, matchVars, traverseVars>>

RECURSIVE toResults(_, _, _, _)
toResults(sourceCode, rule, ms, i) ==
    IF i > Len(ms) THEN <<>>
    ELSE <<scanResult(sourceCode, rule, ms[i])>> \o toResults(sourceCode, rule, ms, i + 1)

\* scan: findValidMatches for the current rule and the results it pushes.
ScanResolve ==
    /\ op = "scan" /\ pc = "resolve"
    /\ LET rule == rules[ruleIndex]
           resolved == findValidMatches(sourceTree, Get(rule, "rule"), NoNode, NoMetavars,
                                        <<ruleIndex>>)
       IN  IF resolved.threw
           THEN /\ pc' = "threw"
                /\ returned' = Rejected("TypeError")
                /\ UNCHANGED <<ruleIndex, validMatches, results>>
           ELSE /\ validMatches' = resolved.matches
                /\ results' = results \o toResults(sourceTree, rule, resolved.matches, 1)
                /\ ruleIndex' = ruleIndex + 1
                /\ pc' = "validate"
                /\ UNCHANGED returned
    /\ nodeMetavariables' = nodeMetavariables \cup
           resolveWrites(sourceTree, Get(rules[ruleIndex], "rule"), NoNode, NoMetavars,
                         <<ruleIndex>>)
    /\ UNCHANGED <<op, sourceTree, yamlContent, rules, matchVars, traverseVars>>

\* scan: return results.
ScanReturn ==
    /\ op = "scan" /\ pc = "validate" /\ ruleIndex > Len(rules)
    /\ returned' = Resolved(results)
    /\ pc' = "returned"
    /\ UNCHANGED <<op, sourceTree, yamlContent, rules, ruleIndex, validMatches, results,
                   nodeMetavariables, matchVars, traverseVars>>

NextScan == LoadRules \/ ScanValidate \/ ScanResolve \/ ScanReturn

SpecScan == InitScan /\ [][NextScan]_vars

----------------------------------------------------------------------------
(* Properties of the matcher and of find.                                  *)

sourceBlock == child(sourceTree, 0)
targetNode == child(patternTree, 0)

RECURSIVE ContainsWildcard(_)
ContainsWildcard(p) ==
    isWildcard(p) \/ \E i \in 1..Len(p.children) : ContainsWildcard(p.children[i])
RECURSIVE ContainsMetavariable(_)
ContainsMetavariable(p) ==
    isMetavariable(p) \/ \E i \in 1..Len(p.children) : ContainsMetavariable(p.children[i])

\* In a pattern without wildcards the pattern's children are compared with
\* the source's children position by position, so the occurrences of
\* metavariables and the source subtrees they were compared against are:
RECURSIVE Occurrences(_, _)
Occurrences(p, s) ==
    IF IsNull(p) \/ IsNull(s) THEN {}
    ELSE IF isMetavariable(p) THEN {<<p.text, getNodeText(s)>>}
    ELSE UNION {Occurrences(child(p, i), child(s, i)) : i \in 0..(childCount(p) - 1)}

\* Every compared occurrence captured the text its name is bound to.
OccurrencesAgree(p, s, metavars) ==
    \A occ \in Occurrences(p, s) :
        occ[1] \in DOMAIN metavars /\ metavars[occ[1]] = occ[2]

\* C1: a successful match binds each name to one text: a name bound on entry
\* keeps its text, and every occurrence of a name compared against a source
\* subtree captured the text the name is bound to (an empty text included).
C1_MetavariableConsistency ==
    /\ (pc = "matched" /\ matchResult.matches) =>
          /\ \A name \in DOMAIN currentMetavars :
                /\ name \in DOMAIN matchResult.metavariables
                /\ matchResult.metavariables[name] = currentMetavars[name]
          /\ ~ContainsWildcard(targetNode) =>
                OccurrencesAgree(targetNode, sourceBlock, matchResult.metavariables)
    /\ (pc = "found" /\ ~IsNull(targetNode) /\ ~ContainsWildcard(targetNode)) =>
          \A i \in 1..Len(findResult) :
              OccurrencesAgree(targetNode, nodeAt(sourceTree, findResult[i].node.path),
                               findResult[i].metavariables)

\* The pattern's children hold a wildcard that is not the last child; w is
\* the 0-based index of the first one.
FirstWildcard(p) ==
    LET W == {i \in 0..(childCount(p) - 1) : isWildcard(child(p, i))}
    IN  IF W = {} THEN -1 ELSE CHOOSE i \in W : \A j \in W : i <= j
WildcardNotLast(p) == FirstWildcard(p) >= 0 /\ FirstWildcard(p) + 1 < childCount(p)

\* Bindings after the pattern children before index w matched the source
\* children at the same positions ([matches |-> FALSE] when one does not).
RECURSIVE PrefixResult(_, _, _, _, _)
PrefixResult(s, p, metavars, i, w) ==
    IF i >= w THEN [matches |-> TRUE, metavariables |-> metavars]
    ELSE LET r == equalsWithMetavars(child(s, i), child(p, i), metavars) IN
         IF r.matches THEN PrefixResult(s, p, r.metavariables, i + 1, w) ELSE NoMatch

\* Source positions at or after the cursor whose child matches q.
MatchingPositions(s, q, metavars, from) ==
    {i \in from..(childCount(s) - 1) : equalsWithMetavars(child(s, i), q, metavars).matches}
Smallest(S) == CHOOSE i \in S : \A j \in S : i <= j

\* Pattern children from pi on match the successive source children from si
\* on, bindings propagated, and no source child is left over.
RECURSIVE RestMatches(_, _, _, _, _)
RestMatches(s, p, metavars, si, pi) ==
    IF pi >= childCount(p) THEN si = childCount(s)
    ELSE IF isWildcard(child(p, pi)) /\ pi + 1 = childCount(p) THEN TRUE
    ELSE /\ si < childCount(s)
         /\ LET r == equalsWithMetavars(child(s, si), child(p, pi), metavars) IN
               r.matches /\ RestMatches(s, p, r.metavariables, si + 1, pi + 1)

SingleWildcard(p) ==
    Cardinality({i \in 0..(childCount(p) - 1) : isWildcard(child(p, i))}) = 1

\* C2: with a wildcard that is not the last pattern child, the match succeeds
\* only if, from the first source position matching the child after the
\* wildcard, every later pattern child matches the successive source children
\* and no source child is left unconsumed.
C2_WildcardThenRest ==
    (/\ pc = "matched" /\ matchResult.matches
     /\ ~IsNull(targetNode) /\ targetNode.kind = "statement_block"
     /\ WildcardNotLast(targetNode) /\ SingleWildcard(targetNode)) =>
        LET w == FirstWildcard(targetNode)
            pre == PrefixResult(sourceBlock, targetNode, currentMetavars, 0, w)
            P == MatchingPositions(sourceBlock, child(targetNode, w + 1), pre.metavariables, w)
        IN  /\ pre.matches
            /\ P /= {}
            /\ RestMatches(sourceBlock, targetNode, pre.metavariables, Smallest(P), w + 1)

\* C6: with a wildcard followed by a pattern child q, the match fails when no
\* source child at or after the cursor matches q, and otherwise q is matched
\* at the smallest such position: the result carries the bindings q gets there.
C6_NonGreedyLeftmost ==
    (/\ pc = "matched"
     /\ ~IsNull(targetNode) /\ targetNode.kind = "statement_block"
     /\ WildcardNotLast(targetNode)) =>
        LET w == FirstWildcard(targetNode)
            q == child(targetNode, w + 1)
            pre == PrefixResult(sourceBlock, targetNode, currentMetavars, 0, w)
        IN  pre.matches =>
              LET P == MatchingPositions(sourceBlock, q, pre.metavariables, w) IN
              /\ (P = {}) => ~matchResult.matches
              /\ (P /= {}) =>
                   LET first == equalsWithMetavars(child(sourceBlock, Smallest(P)), q,
                                                   pre.metavariables).metavariables
                   IN  /\ matchResult.matches
                       /\ \A name \in DOMAIN first :
                             /\ name \in DOMAIN matchResult.metavariables
                             /\ matchResult.metavariables[name] = first[name]

\* Two calls with different arguments follow the wildcard's cursor and the
\* metavariable of the pattern's call took the first one's argument.
C6_Witness ==
    /\ pc = "matched" /\ matchResult.matches
    /\ currentMetavars = NoMetavars
    /\ targetNode = Inner("statement_block", <<WildcardNode, Call(Id(<<"$", "X">>)), WildcardNode>>)
    /\ sourceBlock = Inner("statement_block",
                           <<Id(<<"a">>), Call(Id(<<"a">>)), Call(Id(<<"b">>))>>)
    /\ matchResult.metavariables[<<"$", "X">>] = <<"a">>

\* Same kind at every node, same number of children in the same order,
\* identical text at every leaf.
RECURSIVE StructurallyIdentical(_, _)
StructurallyIdentical(a, b) ==
    /\ a.kind = b.kind
    /\ childCount(a) = childCount(b)
    /\ IF childCount(a) = 0 THEN a.text = b.text
       ELSE \A i \in 1..childCount(a) : StructurallyIdentical(a.children[i], b.children[i])

\* Pre-order of a tree: a node, then its child subtrees left to right.
RECURSIVE PreOrder(_, _)
RECURSIVE PreOrderKids(_, _, _)
PreOrderKids(tree, path, i) ==
    IF i >= childCount(nodeAt(tree, path)) THEN <<>>
    ELSE PreOrder(tree, path \o <<i>>) \o PreOrderKids(tree, path, i + 1)
PreOrder(tree, path) == <<path>> \o PreOrderKids(tree, path, 0)

ExactPattern(p) == ~IsNull(p) /\ ~ContainsWildcard(p) /\ ~ContainsMetavariable(p)

\* C7: a pattern without metavariable and wildcard matches a source node
\* exactly when the two trees are structurally identical, the bindings come
\* back unchanged, and find reports those nodes, each once, and no other.
C7_ExactMatch ==
    ExactPattern(targetNode) =>
        /\ pc = "matched" =>
              /\ matchResult.matches <=> StructurallyIdentical(sourceBlock, targetNode)
              /\ matchResult.matches => matchResult.metavariables = currentMetavars
        /\ pc = "found" =>
              LET identical(path) == StructurallyIdentical(nodeAt(sourceTree, path), targetNode)
                  expected == SelectSeq(PreOrder(sourceTree, <<>>), identical)
              IN  /\ Len(findResult) = Len(expected)
                  /\ \A i \in 1..Len(expected) :
                        /\ findResult[i].node.path = expected[i]
                        /\ findResult[i].metavariables = NoMetavars

\* find reported two occurrences of an exact pattern.
C7_Witness ==
    /\ pc = "found" /\ ExactPattern(targetNode)
    /\ Len(findResult) = 2
    /\ findResult[1].node.path /= findResult[2].node.path

IsPrefix(a, b) == Len(a) <= Len(b) /\ SubSeq(b, 1, Len(a)) = a

\* C10: on every tree the cursor loop yields the nodes in pre-order, each
\* once, and then ends.
C10_TraversalPreOrder ==
    /\ [](op = "traverse" => IsPrefix(yielded, PreOrder(sourceTree, <<>>)))
    /\ <>(pc = "done" /\ yielded = PreOrder(sourceTree, <<>>))

\* The loop ended on a tree where it had to climb two levels at once.
C10_Witness ==
    /\ pc = "done"
    /\ Len(yielded) >= 5
    /\ \E i \in 1..(Len(yielded) - 1) : Len(yielded[i]) >= Len(yielded[i + 1]) + 2

----------------------------------------------------------------------------
(* Properties of the resolver and the rule engine.  The reference          *)
(* semantics below speaks of positions in the source, not of node objects. *)

AllPaths(tree) == {PreOrder(tree, <<>>)[i] : i \in 1..Len(PreOrder(tree, <<>>))}
Start(src, path) == offsetOf(src, path, 0)
End(src, path) == offsetOf(src, path, 0) + Len(nodeAt(src, path).text)

\* The match of a pattern object's own pattern at a position.
BaseMatch(src, patternObj, path) ==
    equalsWithMetavars(nodeAt(src, path), child(Get(patternObj, "pattern").parse, 0),
                       NoMetavars)

\* Two binding sets give no name two texts.
Compatible(a, b) == \A n \in (DOMAIN a) \cap (DOMAIN b) : a[n] = b[n]
Joined(a, b) == [n \in (DOMAIN a) \cup (DOMAIN b) |-> IF n \in DOMAIN b THEN b[n] ELSE a[n]]

\* The relation of a context field between the base position m and the
\* context position k.
Related(src, field, m, k) ==
    CASE field = "inside" -> Start(src, k) <= Start(src, m) /\ End(src, m) <= End(src, k)
      [] field = "has" -> k /= <<>> /\ Parent(k) = m
      [] field = "follows" -> Start(src, m) >= End(src, k)
      [] field = "precedes" -> End(src, m) <= Start(src, k)

ContextEntries(patternObj) ==
    {i \in 1..Len(patternObj.entries) :
        /\ patternObj.entries[i].key \in contextTypeNames
        /\ patternObj.entries[i].value.type = "object"}

\* The pattern matches at m without conflict with the bindings so far, and
\* every context field has a match, accepted in turn, in its relation with m.
RECURSIVE Accepted(_, _, _, _)
Accepted(src, patternObj, m, bindings) ==
    LET r == BaseMatch(src, patternObj, m) IN
    /\ r.matches
    /\ Compatible(bindings, r.metavariables)
    /\ \A i \in ContextEntries(patternObj) :
          \E k \in AllPaths(src) :
              /\ Accepted(src, patternObj.entries[i].value, k, Joined(bindings, r.metavariables))
              /\ Related(src, patternObj.entries[i].key, m, k)

\* The rule scan resolved last, and the positions of its accepted matches.
lastRule == rules[ruleIndex - 1]
Resolved1 == op = "scan" /\ ruleIndex >= 2
RECURSIVE pathsOf(_)
pathsOf(ms) == IF ms = <<>> THEN <<>> ELSE <<Head(ms).node.path>> \o pathsOf(Tail(ms))

HasField(patternObj, field) ==
    \E i \in 1..Len(patternObj.entries) : patternObj.entries[i].key = field

\* C3: the accepted matches of a rule are exactly the base matches for which
\* every context field present has an accepted, non-conflicting match of its
\* sub-pattern in the field's relation with the base node.
C3_ContextExistential ==
    Resolved1 =>
        LET accepted(path) == Accepted(sourceTree, Get(lastRule, "rule"), path, NoMetavars)
        IN  pathsOf(validMatches) = SelectSeq(PreOrder(sourceTree, <<>>), accepted)

\* Bindings a match and all its witnesses can share.
Texts(src) == {getNodeText(nodeAt(src, path)) : path \in AllPaths(src)}
Assignments(src) == [{<<"$", "X">>} -> Texts(src)]
Agrees(sigma, metavars) ==
    \A n \in DOMAIN metavars : n \in DOMAIN sigma /\ sigma[n] = metavars[n]

\* sigma agrees with the match at m and with one witness per context field,
\* at every depth.
RECURSIVE Witnessed(_, _, _, _)
Witnessed(src, patternObj, m, sigma) ==
    LET r == BaseMatch(src, patternObj, m) IN
    /\ r.matches
    /\ Agrees(sigma, r.metavariables)
    /\ \A i \in ContextEntries(patternObj) :
          \E k \in AllPaths(src) :
              /\ Related(src, patternObj.entries[i].key, m, k)
              /\ Witnessed(src, patternObj.entries[i].value, k, sigma)

\* C4: every accepted match has one assignment of texts to names that agrees
\* with the base match and with a witness for each context field at every
\* depth.
C4_ConsistentBindings ==
    Resolved1 =>
        \A i \in 1..Len(validMatches) :
            \E sigma \in Assignments(sourceTree) :
                Witnessed(sourceTree, Get(lastRule, "rule"), validMatches[i].node.path, sigma)

\* C5: with `has` as the only context field, a base match is accepted exactly
\* when an accepted match of the `has` sub-pattern is a direct child of the
\* base node in the source.
C5_HasDirectChild ==
    (/\ Resolved1
     /\ HasField(Get(lastRule, "rule"), "has")
     /\ Cardinality(ContextEntries(Get(lastRule, "rule"))) = 1) =>
        LET patternObj == Get(lastRule, "rule")
            sub == Get(patternObj, "has")
        IN  \A m \in AllPaths(sourceTree) :
                LET r == BaseMatch(sourceTree, patternObj, m) IN
                r.matches =>
                    ((\E i \in 1..Len(validMatches) : validMatches[i].node.path = m)
                     <=> \E j \in 0..(childCount(nodeAt(sourceTree, m)) - 1) :
                             Accepted(sourceTree, sub, m \o <<j>>, r.metavariables))

\* A property is there.
Present(obj, key) ==
    obj.type = "object" /\ \E i \in 1..Len(obj.entries) : obj.entries[i].key = key

\* Dotted paths of the pattern objects, reached through the four context
\* fields, that lack their pattern.
RECURSIVE OffendingPaths(_, _)
OffendingPaths(patternObj, path) ==
    (IF Present(patternObj, "pattern") THEN {} ELSE {path}) \cup
    UNION {IF Present(patternObj, c) /\ Get(patternObj, c).type = "object"
           THEN OffendingPaths(Get(patternObj, c), path \o "." \o c)
           ELSE {} : c \in {"inside", "has", "follows", "precedes"}}

WellFormed(rule) ==
    /\ Present(rule, "id") /\ Present(rule, "message") /\ Present(rule, "rule")
    /\ OffendingPaths(Get(rule, "rule"), "rule") = {}

\* The errors validation may raise for a rule that is not well formed.
ValidationErrors(rule) ==
    IF rule.type /= "object" THEN {"Rule must have an id", "TypeError: Cannot read properties of " \o rule.type}
    ELSE (IF Present(rule, "id") THEN {} ELSE {"Rule must have an id"}) \cup
         (IF Present(rule, "message") THEN {} ELSE {"Rule must have a message"}) \cup
         (IF Present(rule, "rule")
          THEN {"Pattern must be defined at " \o q : q \in OffendingPaths(Get(rule, "rule"), "rule")}
          ELSE {"Rule must have a rule object"})

\* C8: matching runs for a rule only after the rule passed validation, which
\* a rule lacking id, message, rule or a pattern at any depth does not pass;
\* the error names what is missing (the dotted path of a sub-pattern without
\* pattern), and then scan is over and the caller has the error, no results.
C8_ValidationBeforeMatching ==
    (op = "scan" /\ pc /= "load") =>
        /\ \A i \in 1..Len(rules) :
              (i < ruleIndex \/ (i = ruleIndex /\ pc = "resolve")) => WellFormed(rules[i])
        /\ (ruleIndex \in 1..Len(rules) /\ ~WellFormed(rules[ruleIndex])) =>
              \/ pc = "validate" /\ returned = NothingYet
              \/ /\ pc = "threw"
                 /\ returned.kind = "error"
                 /\ returned.error \in ValidationErrors(rules[ruleIndex])
        /\ returned.kind = "value" =>
              /\ \A i \in 1..Len(rules) : WellFormed(rules[i])
              /\ returned.value = results
        /\ pc = "threw" => returned.kind = "error" /\ ~ENABLED NextScan

\* scan had results of a first rule in hand when the second rule failed
\* validation at rule.inside.has; the caller got the error.
C8_Witness ==
    /\ op = "scan" /\ pc = "threw" /\ ruleIndex = 2
    /\ results /= <<>>
    /\ returned = Rejected("Pattern must be defined at rule.inside.has")

\* C9: a list is returned as is, a single rule object as a one-element list,
\* and anything else (a scalar, an empty document, malformed text) is a load
\* error and no list.
C9_LoadRulesByShape ==
    (op = "scan" /\ pc /= "load") =>
        IF ~yamlContent.malformed /\ yamlContent.value.type = "array"
        THEN rules = yamlContent.value.items
        ELSE IF ~yamlContent.malformed /\ yamlContent.value.type = "object"
        THEN rules = <<yamlContent.value>>
        ELSE /\ rules = <<>>
             /\ pc = "threw"
             /\ returned.kind = "error"

----------------------------------------------------------------------------
(* Properties of the source trees' nodes.                                  *)

\* C11: the parsed source trees are read-only: whatever find and the resolver
\* have done, no node carries an attribute it lacked when parsing finished.
C11_SourceTreeReadOnly == nodeMetavariables = {}

----------------------------------------------------------------------------
(* Properties of the resolver on validated rules.                          *)

\* An entry the resolver has to read: the pattern, or one of the four context
\* fields with a value.
IsConstraint(entry) ==
    entry.key = "pattern" \/ (entry.key \in contextTypeNames /\ Truthy(entry.value))

\* The pattern object with every other entry left out, at every depth.
RECURSIVE Stripped(_)
Stripped(patternObj) ==
    LET es == SelectSeq(patternObj.entries, IsConstraint) IN
    JsObject([i \in 1..Len(es) |->
                 IF es[i].key = "pattern" THEN es[i]
                 ELSE Entry(es[i].key, Stripped(es[i].value))])

\* The rule of the current iteration has such an entry.
HasOtherEntry(rule) == Stripped(Get(rule, "rule")) /= Get(rule, "rule")

\* C12: a rule that passed validation is resolved without a runtime failure,
\* and its accepted matches are those of the same rule without the keys that
\* are none of the four context fields and without the fields that have an
\* empty or null value.
C12_ValidationSufficient ==
    op = "scan" =>
        /\ (pc = "threw" /\ ruleIndex \in 1..Len(rules)) => ~validateRule(rules[ruleIndex]).ok
        /\ Resolved1 =>
              validMatches =
                  findValidMatches(sourceTree, Stripped(Get(lastRule, "rule")), NoNode,
                                   NoMetavars, <<ruleIndex - 1>>).matches

====
